---- MODULE Spec2Model ----
(***************************************************************************)
(* A model of the BMP decoder of entooone/go-bmp (src/decode.go).          *)
(*                                                                         *)
(* The byte source is a finite byte string that ends with io.EOF.  One     *)
(* behaviour fixes a BMP file (built from its header fields, color table   *)
(* and pixel rows, possibly cut short) and its height-flipped twin, and    *)
(* then runs DecodeConfig and Decode on them, each call with a fresh       *)
(* decoder, one call at a time.  Go's int is taken to be 64 bits wide.     *)
(***************************************************************************)
EXTENDS Integers, Sequences, FiniteSets, TLC

VARIABLES
    file,      \* the header fields, color table and rows the input is built from
    input,     \* input.base, input.flip: the bytes of the file and of its twin
    run,       \* the call in progress: "cfg", "img", "flip" or "none"
    pc,        \* the position of the call in progress
    pos,       \* bytes of the reader consumed so far
    reads,     \* the reads issued so far: <<offset, requested, delivered>>
    tmp,       \* decoder.tmp (the bytes written so far; the rest are zero)
    dibLen,    \* readHeader's local dibLen
    topDown,   \* decoder.topDown
    bpp,       \* decoder.bpp
    numColor,  \* decoder.numColor
    width,     \* decoder.width
    height,    \* decoder.height
    config,    \* decoder.config
    image,     \* decoder.image
    pix,       \* the Pix of the image being filled (paletted / rgba)
    y,         \* the row loop's y
    outs       \* outs[k]: what call k returned

vars == <<file, input, run, pc, pos, reads, tmp, dibLen, topDown, bpp,
          numColor, width, height, config, image, pix, y, outs>>

Max(a, b) == IF a > b THEN a ELSE b

(***************************************************************************)
(* Go's integer operators on non-negative values.                          *)
(***************************************************************************)
RECURSIVE BitAnd(_, _)
BitAnd(a, b) ==
    IF a = 0 \/ b = 0 THEN 0
    ELSE (a % 2) * (b % 2) + 2 * BitAnd(a \div 2, b \div 2)

BitOr(a, b) == a + b - BitAnd(a, b)

BitXor(a, b) == a + b - 2 * BitAnd(a, b)

AndNot(a, b) == a - BitAnd(a, b)

Shr(a, n) == a \div (2 ^ n)

\* << on a byte: the bits shifted out are lost
Shl8(a, n) == (a * (2 ^ n)) % 256

(***************************************************************************)
(* encoding/binary.LittleEndian and the int32 conversion.  The unsigned     *)
(* fields of the files below stay under 2^31.                              *)
(***************************************************************************)
TmpAt(t, i) == IF i < Len(t) THEN t[i + 1] ELSE 0

Uint16(t, i) == TmpAt(t, i) + 256 * TmpAt(t, i + 1)

Uint32(t, i) ==
    TmpAt(t, i) + 256 * TmpAt(t, i + 1) + 65536 * TmpAt(t, i + 2)
        + 16777216 * TmpAt(t, i + 3)

\* int32(binary.LittleEndian.Uint32(...)): the top byte carries the sign
Int32LE(t, i) ==
    TmpAt(t, i) + 256 * TmpAt(t, i + 1) + 65536 * TmpAt(t, i + 2)
        + 16777216 * (IF TmpAt(t, i + 3) >= 128 THEN TmpAt(t, i + 3) - 256
                      ELSE TmpAt(t, i + 3))

(***************************************************************************)
(* The wire format readHeader, decodeConfig and the row loops consume:     *)
(* the files the decoder is run on are built from their fields.            *)
(***************************************************************************)
fileHeaderLen == 14

infoHeaderLen == 40

\* the length of decoder.tmp
TmpLen == 768

\* the DIB header lengths readHeader supports
DibLens == {40, 52, 60, 96, 108, 112, 120, 124}

Depths == {1, 4, 8, 16, 24, 32}

Indexed == {1, 4, 8}

SigBM == <<66, 77>>

PutU16(v) == <<v % 256, (v \div 256) % 256>>

PutU32(v) ==
    <<v % 256, (v \div 256) % 256, (v \div 65536) % 256,
      (v \div 16777216) % 256>>

\* two's complement: a negative v has the bytes of v + 2^31 with the top bit set
PutI32(v) ==
    IF v >= 0 THEN PutU32(v)
    ELSE LET u == (v + 2147483647) + 1
         IN  <<u % 256, (u \div 256) % 256, (u \div 65536) % 256,
               (u \div 16777216) + 128>>

Zeros(n) == [i \in 1..n |-> 0]

RECURSIVE Flatten(_)
Flatten(ss) == IF ss = <<>> THEN <<>> ELSE Head(ss) \o Flatten(Tail(ss))

Reverse(s) == [i \in 1..Len(s) |-> s[Len(s) + 1 - i]]

Abs(v) == IF v < 0 THEN -v ELSE v

\* the bytes of a stored pixel row: padded to a multiple of 4
StoredRowLen(w, b) == ((w * b + 31) \div 32) * 4

HeaderBytes(f) ==
    f.sig \o Zeros(8) \o PutU32(f.offset) \o PutU32(f.dibLen)
        \o PutI32(f.width) \o PutI32(f.height) \o PutU16(1) \o PutU16(f.bpp)
        \o PutU16(f.compression) \o Zeros(14) \o PutU32(f.numColor) \o Zeros(4)
        \o (IF f.dibLen > infoHeaderLen
            THEN PutU32(f.masks[1]) \o PutU32(f.masks[2]) \o PutU32(f.masks[3])
                     \o Zeros(f.dibLen - 52)
            ELSE <<>>)

FileBytes(f) == HeaderBytes(f) \o f.ct \o Flatten(f.rows)

\* the same picture stored with the other sign of the height field
Flip(f) == [f EXCEPT !.height = -f.height, !.rows = Reverse(f.rows)]

Cut(bytes, n) == SubSeq(bytes, 1, IF n < Len(bytes) THEN n ELSE Len(bytes))

(***************************************************************************)
(* Bounds of the inputs.                                                   *)
(***************************************************************************)
MaxWidth == 9

MaxHeight == 2

NumPatterns == 2

\* pixel data: 0xF8 0x00 / 0x1F 0x00 / 0x00 0x7C are the 16-bit words with
\* one five-bit field set; the rest mixes bits so that rows and nibbles differ
Patterns ==
    << <<248, 0, 31, 0, 0, 124, 165, 195, 18, 52, 255, 129>>,
       <<165, 195, 60, 90, 15, 240, 85, 170, 1, 128, 254, 127>>,
       <<129, 36, 219, 102, 153, 24, 231, 66, 189, 90, 7, 224>>,
       <<1, 2, 4, 8, 16, 32, 64, 128, 3, 12, 48, 192>> >>

PatByte(p, k) == Patterns[p][(k % 12) + 1]

\* stored row number r of pattern p, n bytes long (the padding is not zero)
RowBytes(p, r, n) == [i \in 1..n |-> PatByte(p, (i - 1) + 5 * r)]

\* a color table of n B,G,R,X entries
TableBytes(n) == [i \in 1..(4 * n) |-> (37 * i) % 256]

NoMasks == <<0, 0, 0>>

\* a file with the given header fields; delta is added to the offset the
\* format requires; the color table and the rows are complete
Header(sig, dl, w, h, b, comp, masks, delta, nc, p) ==
    [sig |-> sig,
     offset |-> fileHeaderLen + dl + (IF b \in Indexed THEN 4 * nc ELSE 0) + delta,
     dibLen |-> dl, width |-> w, height |-> h,
     bpp |-> b, compression |-> comp, numColor |-> nc, masks |-> masks,
     ct |-> IF b \in Indexed THEN TableBytes(nc) ELSE <<>>,
     rows |-> IF w > 0
              THEN [r \in 1..Abs(h) |-> RowBytes(p, r - 1, StoredRowLen(w, b))]
              ELSE <<>>,
     len |-> -1]

\* a well-formed file with a 40-byte DIB header
Picture(b, w, h, top, nc, p) ==
    Header(SigBM, infoHeaderLen, w, IF top THEN -h ELSE h, b, 0, NoMasks, 0, nc, p)

\* pictures of every depth, width, height, row order and pixel pattern
FamPixels ==
    {Picture(b, w, h, top, IF b \in Indexed THEN 2 ELSE 0, p) :
        b \in Depths, w \in 1..MaxWidth, h \in 1..MaxHeight, top \in BOOLEAN,
        p \in 1..NumPatterns}

\* headers with a wrong signature, DIB length, geometry, depth or offset
FamHeader ==
    {Header(sig, dl, g[1], g[2], b, 0, NoMasks, delta, nc, 1) :
        sig \in {SigBM, <<66, 65>>}, dl \in {12, 40, 124},
        g \in {<<1, 1>>, <<0, 1>>, <<-1, 1>>, <<1, 0>>, <<1, -1>>},
        b \in {1, 2, 24}, delta \in {0, 1}, nc \in {0, 2}}

\* red, green, blue masks: none, 5-5-5, 8-8-8
MaskSets == {NoMasks, <<31744, 992, 31>>, <<16711680, 65280, 255>>}

\* compression codes and channel masks
FamCompression ==
    {Header(SigBM, dl, 1, 1, b, comp, m, 0, IF b \in Indexed THEN 2 ELSE 0, 1) :
        dl \in {40, 52}, b \in Depths \cup {2}, comp \in {0, 1, 3}, m \in MaskSets}

TruncBases ==
    {Picture(b, 2, 2, FALSE, IF b \in Indexed THEN 2 ELSE 0, 1) : b \in Depths}
        \cup {Picture(32, 1, 1, top, 0, 1) : top \in BOOLEAN}
        \cup {Header(<<66, 65>>, infoHeaderLen, 1, 1, 24, 0, NoMasks, 0, 0, 1)}

\* every strict prefix of a file
FamTruncated ==
    UNION {{[f EXCEPT !.len = n] : n \in 0..(Len(FileBytes(f)) - 1)} : f \in TruncBases}

\* color tables and rows at and just past the length of tmp
FamScratch ==
    {Picture(b, 1, 1, FALSE, nc, 1) :
        b \in {1, 8}, nc \in {TmpLen \div 4, TmpLen \div 4 + 1}}
        \cup {Picture(24, w, 1, FALSE, 0, 1) : w \in {TmpLen \div 3, TmpLen \div 3 + 1}}

Files == FamPixels \cup FamHeader \cup FamCompression \cup FamTruncated

\* the bytes the reader delivers: the whole file, or its first f.len bytes
InputBytes(f) == IF f.len < 0 THEN FileBytes(f) ELSE Cut(FileBytes(f), f.len)

(***************************************************************************)
(* io.ReadFull on the byte source, as the decoder uses it.                 *)
(***************************************************************************)
\* the bytes delivered to a buffer of n bytes when p bytes were consumed
ReadFullN(in, p, n) == IF Len(in) - p < n THEN Len(in) - p ELSE n

ReadFullErr(in, p, n) ==
    IF n = 0 THEN "nil"
    ELSE IF Len(in) = p THEN "EOF"
    ELSE IF Len(in) - p < n THEN "ErrUnexpectedEOF"
    ELSE "nil"

\* if err == io.EOF { err = io.ErrUnexpectedEOF }
wrapEOF(err) == IF err = "EOF" THEN "ErrUnexpectedEOF" ELSE err

\* tmp with bs stored from index lo on
TmpPut(t, lo, bs) ==
    [k \in 1..Max(Len(t), lo + Len(bs)) |->
        IF k - 1 >= lo /\ k - 1 < lo + Len(bs) THEN bs[k - lo] ELSE TmpAt(t, k - 1)]

(***************************************************************************)
(* What a call returns, and the zero values of a fresh decoder.            *)
(***************************************************************************)
NilImage == [kind |-> "nil"]

NilModel == [kind |-> "nil"]

ZeroConfig == [ColorModel |-> NilModel, Width |-> 0, Height |-> 0]

NotCalled ==
    [status |-> "none", err |-> "nil", image |-> NilImage, config |-> ZeroConfig,
     consumed |-> 0, reads |-> <<>>]

\* return nil, err  /  return image.Config{}, err
Failed(e, p, rd) ==
    [status |-> "err", err |-> e, image |-> NilImage, config |-> ZeroConfig,
     consumed |-> p, reads |-> rd]

\* a run-time panic leaves the call
Panicked(p, rd) ==
    [status |-> "panic", err |-> "nil", image |-> NilImage, config |-> ZeroConfig,
     consumed |-> p, reads |-> rd]

Returned(img, cfg, p, rd) ==
    [status |-> "ok", err |-> "nil", image |-> img, config |-> cfg,
     consumed |-> p, reads |-> rd]

Runs == {"cfg", "img", "flip"}

\* the call ends with result res; its decoder is dropped
Return(res) ==
    /\ outs' = [outs EXCEPT ![run] = res]
    /\ run' = "none"
    /\ pc' = "idle"
    /\ pos' = 0
    /\ reads' = <<>>
    /\ tmp' = <<>>
    /\ dibLen' = 0
    /\ topDown' = FALSE
    /\ bpp' = 0
    /\ numColor' = 0
    /\ width' = 0
    /\ height' = 0
    /\ config' = ZeroConfig
    /\ image' = NilImage
    /\ pix' = <<>>
    /\ y' = 0
    /\ UNCHANGED <<file, input>>

\* the bytes the reader of the call in progress delivers
Source == IF run = "flip" THEN input.flip ELSE input.base

(***************************************************************************)
(* readHeader                                                              *)
(***************************************************************************)
\* a signature check that looks at the first byte only
validSignatureFirstByte(t) == TmpAt(t, 0) = SigBM[1]

\* line 38
validSignature(t) == <<TmpAt(t, 0), TmpAt(t, 1)>> = SigBM

\* the condition under which readHeader resets compression to 0; in Go
\* && binds tighter than ||
trivialBitfields(comp, dl, b, mask) ==
    \/ (comp = 3 /\ dl > infoHeaderLen /\ (b = 16 /\ mask = 32767))
    \/ (b = 32 /\ mask = 16777215)

\* the checks of readHeader after the DIB header is read, in their order
headerError(dl, w, h, b, comp, mask, offset, nc) ==
    IF w <= 0 \/ h = 0 THEN "InvalidGeometry"
    ELSE IF (IF trivialBitfields(comp, dl, b, mask) THEN 0 ELSE comp) # 0
        THEN "UnsupportedCompression"
    ELSE IF b \in Indexed
        THEN (IF offset # fileHeaderLen + dl + nc * 4 THEN "BadOffset" ELSE "nil")
    ELSE IF b \in {16, 24, 32}
        THEN (IF offset # fileHeaderLen + dl THEN "BadOffset" ELSE "nil")
    ELSE "UnsupportedBitDepth"

\* lines 30-48: the file header and the DIB header length
readHeaderProbe ==
    /\ pc = "readHeader"
    /\ LET n == fileHeaderLen + 4
           got == ReadFullN(Source, pos, n)
           err == ReadFullErr(Source, pos, n)
           t == TmpPut(tmp, 0, SubSeq(Source, pos + 1, pos + got))
           rd == Append(reads, <<pos, n, got>>)
           dl == Uint32(t, fileHeaderLen)
       IN  IF err # "nil" THEN Return(Failed(wrapEOF(err), pos + got, rd))
           ELSE IF ~validSignature(t) THEN Return(Failed("BadSignature", pos + got, rd))
           ELSE IF dl \notin DibLens
               THEN Return(Failed("UnsupportedHeader", pos + got, rd))
           ELSE /\ pc' = "readDIB"
                /\ pos' = pos + got
                /\ reads' = rd
                /\ tmp' = t
                /\ dibLen' = dl
                /\ UNCHANGED <<file, input, run, topDown, bpp, numColor, width,
                               height, config, image, pix, y, outs>>

\* lines 50-101: the rest of the DIB header and its checks
readHeader ==
    /\ pc = "readDIB"
    /\ LET n == (fileHeaderLen + dibLen) - (fileHeaderLen + 4)
           got == ReadFullN(Source, pos, n)
           err == ReadFullErr(Source, pos, n)
           t == TmpPut(tmp, fileHeaderLen + 4, SubSeq(Source, pos + 1, pos + got))
           rd == Append(reads, <<pos, n, got>>)
           w == Int32LE(t, 18)
           h0 == Int32LE(t, 22)
           h == IF h0 < 0 THEN -h0 ELSE h0
           b == Uint16(t, 28)
           comp == Uint16(t, 30)
           mask == BitXor(BitXor(Uint32(t, 54), Uint32(t, 58)), Uint32(t, 62))
           offset == Uint32(t, 10)
           nc == Uint32(t, 46)
           e == headerError(dibLen, w, h, b, comp, mask, offset, nc)
       IN  IF err # "nil" THEN Return(Failed(wrapEOF(err), pos + got, rd))
           ELSE IF e # "nil" THEN Return(Failed(e, pos + got, rd))
           ELSE /\ pc' = "decodeConfig"
                /\ pos' = pos + got
                /\ reads' = rd
                /\ tmp' = t
                /\ width' = w
                /\ height' = h
                /\ topDown' = (h0 < 0)
                /\ bpp' = b
                /\ numColor' = nc
                /\ UNCHANGED <<file, input, run, dibLen, config, image, pix, y, outs>>

(***************************************************************************)
(* decodeConfig                                                            *)
(***************************************************************************)
RGBAModel == [kind |-> "RGBAModel"]

\* lines 121-125: the palette, from B,G,R,X entries
colorTable(t, n) ==
    [i \in 1..n |->
        <<TmpAt(t, 4 * (i - 1) + 2), TmpAt(t, 4 * (i - 1) + 1), TmpAt(t, 4 * (i - 1)), 255>>]

\* lines 109-133, and the return of DecodeConfig (lines 303-307)
decodeConfig ==
    /\ pc = "decodeConfig"
    /\ LET n == IF bpp \in Indexed THEN numColor * 4 ELSE 0
           got == ReadFullN(Source, pos, n)
           err == ReadFullErr(Source, pos, n)
           t == TmpPut(tmp, 0, SubSeq(Source, pos + 1, pos + got))
           rd == IF bpp \in Indexed THEN Append(reads, <<pos, n, got>>) ELSE reads
           model == IF bpp \in Indexed
                    THEN [kind |-> "Palette", colors |-> colorTable(t, numColor)]
                    ELSE RGBAModel
           cfg == [ColorModel |-> model, Width |-> width, Height |-> height]
       IN  IF n > TmpLen THEN Return(Panicked(pos, reads))
           ELSE IF err # "nil" THEN Return(Failed(wrapEOF(err), pos + got, rd))
           ELSE IF run = "cfg" THEN Return(Returned(NilImage, cfg, pos + got, rd))
           ELSE /\ pc' = "decode"
                /\ pos' = pos + got
                /\ reads' = rd
                /\ tmp' = t
                /\ config' = cfg
                /\ UNCHANGED <<file, input, run, dibLen, topDown, bpp, numColor,
                               width, height, image, pix, y, outs>>

(***************************************************************************)
(* decode: the dispatch on bpp and the prologue of the routine it calls    *)
(***************************************************************************)
\* image.NewPaletted / NewRGBA / NewNRGBA: Stride
Stride(b, w) == IF b \in Indexed THEN w ELSE 4 * w

\* y0, y1, dy of the row loops
y0(top, h) == IF top THEN 0 ELSE h - 1

y1(top, h) == IF top THEN h ELSE -1

dy(top) == IF top THEN 1 ELSE -1

\* lines 270-279 with lines 137-142, 178-183, 208-213, 238-243
decode ==
    /\ pc = "decode"
    /\ pc' = (CASE bpp \in Indexed -> "decodePalleted"
                [] bpp = 16 -> "decode16"
                [] bpp = 24 -> "decode24"
                [] bpp = 32 -> "decode32")
    /\ pix' = Zeros(Stride(bpp, width) * height)
    /\ y' = y0(topDown, height)
    /\ UNCHANGED <<file, input, run, pos, reads, tmp, dibLen, topDown, bpp,
                   numColor, width, height, config, image, outs>>

\* Pix with row yy (n bytes from yy * n) replaced by row
PutRow(px, yy, n, row) ==
    [k \in 1..Len(px) |->
        IF k - 1 >= yy * n /\ k - 1 < (yy + 1) * n THEN row[k - yy * n] ELSE px[k]]

\* Pix[yy*n : (yy+1)*n]
GetRow(px, yy, n) == SubSeq(px, yy * n + 1, (yy + 1) * n)

MaxOf(S) == CHOOSE m \in S : \A n \in S : n <= m

(***************************************************************************)
(* decodePalleted                                                          *)
(***************************************************************************)
\* a row length without the padding to 4 bytes
rowLenUnpadded(w, b) == (w * b + 7) \div 8

\* line 146: the bytes of a stored row
rowLenPalleted(w, b) == ((w * b + 31) \div 32) * 4

\* lines 157 and 167: the index of group j of byte c
extractIndex(c, b, j) ==
    Shr(BitAnd(c, Shr(AndNot(255, Shr(255, b)), b * j)), 8 - (b * (j + 1)))

\* lines 155-169: the assignments p[index] = value of one row, in order
palletedWrites(t, w, b) ==
    IF w < 8 \div b
    THEN [q \in 1..w |-> <<q - 1, extractIndex(TmpAt(t, 0), b, q - 1)>>]
    ELSE LET k == 8 \div b
             n == ((w + 1) * b) \div 8
         IN  [q \in 1..(n * k) |->
                 LET i == (q - 1) \div k
                     j == (q - 1) % k
                 IN  <<i * 2 + j, extractIndex(TmpAt(t, i), b, j)>>]

\* an assignment outside p (len(p) = Stride = width) panics
writesPanic(ws, n) == \E q \in 1..Len(ws) : ws[q][1] >= n

\* the row after the assignments: the last one to an index stands
applyWrites(row, ws) ==
    [x \in 1..Len(row) |->
        LET hits == {q \in 1..Len(ws) : ws[q][1] = x - 1}
        IN  IF hits = {} THEN row[x] ELSE ws[MaxOf(hits)][2]]

\* lines 144-170: one row
decodePalleted ==
    /\ pc = "decodePalleted"
    /\ y # y1(topDown, height)
    /\ LET n == rowLenPalleted(width, bpp)
           got == ReadFullN(Source, pos, n)
           err == ReadFullErr(Source, pos, n)
           t == TmpPut(tmp, 0, SubSeq(Source, pos + 1, pos + got))
           rd == Append(reads, <<pos, n, got>>)
           ws == palletedWrites(t, width, bpp)
       IN  IF n > TmpLen THEN Return(Panicked(pos, reads))
           ELSE IF err # "nil" THEN Return(Failed(wrapEOF(err), pos + got, rd))
           ELSE IF writesPanic(ws, width) THEN Return(Panicked(pos + got, rd))
           ELSE /\ pix' = PutRow(pix, y, width, applyWrites(GetRow(pix, y, width), ws))
                /\ y' = y + dy(topDown)
                /\ pos' = pos + got
                /\ reads' = rd
                /\ tmp' = t
                /\ UNCHANGED <<file, input, run, pc, dibLen, topDown, bpp, numColor,
                               width, height, config, image, outs>>

(***************************************************************************)
(* decode16                                                                *)
(***************************************************************************)
\* line 186
rowLen16(w) == AndNot(w * 2 + 3, 3)

\* lines 197-200: the four bytes of a pixel from its two source bytes
rgba16(lo, hi) ==
    <<Shr(BitAnd(hi, 62), 1),
      BitOr(Shl8(BitAnd(lo, 7), 3), Shr(BitAnd(hi, 192), 6)),
      Shr(BitAnd(lo, 248), 3),
      255>>

\* lines 195-201
row16(t, w) ==
    [k \in 1..(4 * w) |->
        LET px == (k - 1) \div 4
        IN  rgba16(TmpAt(t, 2 * px), TmpAt(t, 2 * px + 1))[((k - 1) % 4) + 1]]

\* lines 185-202: one row
decode16 ==
    /\ pc = "decode16"
    /\ y # y1(topDown, height)
    /\ LET n == rowLen16(width)
           got == ReadFullN(Source, pos, n)
           err == ReadFullErr(Source, pos, n)
           t == TmpPut(tmp, 0, SubSeq(Source, pos + 1, pos + got))
           rd == Append(reads, <<pos, n, got>>)
       IN  IF n > TmpLen THEN Return(Panicked(pos, reads))
           ELSE IF err # "nil" THEN Return(Failed(wrapEOF(err), pos + got, rd))
           ELSE /\ pix' = PutRow(pix, y, 4 * width, row16(t, width))
                /\ y' = y + dy(topDown)
                /\ pos' = pos + got
                /\ reads' = rd
                /\ tmp' = t
                /\ UNCHANGED <<file, input, run, pc, dibLen, topDown, bpp, numColor,
                               width, height, config, image, outs>>

(***************************************************************************)
(* decode24                                                                *)
(***************************************************************************)
\* line 216
rowLen24(w) == AndNot(w * 3 + 3, 3)

\* lines 227-230
rgba24(b0, b1, b2) == <<b2, b1, b0, 255>>

\* lines 225-231
row24(t, w) ==
    [k \in 1..(4 * w) |->
        LET px == (k - 1) \div 4
        IN  rgba24(TmpAt(t, 3 * px), TmpAt(t, 3 * px + 1), TmpAt(t, 3 * px + 2))
                [((k - 1) % 4) + 1]]

\* lines 215-232: one row
decode24 ==
    /\ pc = "decode24"
    /\ y # y1(topDown, height)
    /\ LET n == rowLen24(width)
           got == ReadFullN(Source, pos, n)
           err == ReadFullErr(Source, pos, n)
           t == TmpPut(tmp, 0, SubSeq(Source, pos + 1, pos + got))
           rd == Append(reads, <<pos, n, got>>)
       IN  IF n > TmpLen THEN Return(Panicked(pos, reads))
           ELSE IF err # "nil" THEN Return(Failed(wrapEOF(err), pos + got, rd))
           ELSE /\ pix' = PutRow(pix, y, 4 * width, row24(t, width))
                /\ y' = y + dy(topDown)
                /\ pos' = pos + got
                /\ reads' = rd
                /\ tmp' = t
                /\ UNCHANGED <<file, input, run, pc, dibLen, topDown, bpp, numColor,
                               width, height, config, image, outs>>

(***************************************************************************)
(* decode32                                                                *)
(***************************************************************************)
\* a slice expression s[lo:hi] on a slice of capacity c is in range
sliceInRange(lo, hi, c) == 0 <= lo /\ lo <= hi /\ hi <= c

\* lines 255-258: p[i+2] is indexed for every i < width*4, p of length n
swapPanics(w, n) == \E i \in 0..(w * 4 - 1) : i + 2 >= n

\* lines 255-258: p[i], p[i+2] = p[i+2], p[i] for i from i to last
RECURSIVE swapFrom(_, _, _)
swapFrom(p, i, last) ==
    IF i > last THEN p
    ELSE swapFrom([p EXCEPT ![i + 1] = p[i + 3], ![i + 3] = p[i + 1]], i + 1, last)

\* Pix with bs stored from index lo on
PixPut(px, lo, bs) ==
    [k \in 1..Len(px) |->
        IF k - 1 >= lo /\ k - 1 < lo + Len(bs) THEN bs[k - lo] ELSE px[k]]

\* lines 245-259: one row.  p is Pix[y*Stride : (y+1)*Stride], of capacity
\* (height-y)*Stride; the read goes into p[y*Stride : y*(Stride+1)]
decode32 ==
    /\ pc = "decode32"
    /\ y # y1(topDown, height)
    /\ LET S == Stride(bpp, width)
           lo == y * S
           hi == y * (S + 1)
           n == hi - lo
           got == ReadFullN(Source, pos, n)
           err == ReadFullErr(Source, pos, n)
           rd == Append(reads, <<pos, n, got>>)
           px == PixPut(pix, y * S + lo, SubSeq(Source, pos + 1, pos + got))
       IN  IF ~sliceInRange(lo, hi, (height - y) * S) THEN Return(Panicked(pos, reads))
           ELSE IF err # "nil" THEN Return(Failed(wrapEOF(err), pos + got, rd))
           ELSE IF swapPanics(width, S) THEN Return(Panicked(pos + got, rd))
           ELSE /\ pix' = PutRow(px, y, S, swapFrom(GetRow(px, y, S), 0, width * 4 - 1))
                /\ y' = y + dy(topDown)
                /\ pos' = pos + got
                /\ reads' = rd
                /\ UNCHANGED <<file, input, run, pc, tmp, dibLen, topDown, bpp,
                               numColor, width, height, config, image, outs>>

(***************************************************************************)
(* The end of the row loop and the return of Decode                        *)
(***************************************************************************)
\* line 172: d.image = paletted; decode16, decode24 and decode32 assign nothing
imageAfterRows(b, img, px, w, h, cfg) ==
    IF b \in Indexed
    THEN [kind |-> "Paletted", Width |-> w, Height |-> h, Stride |-> w, Pix |-> px,
          Palette |-> cfg.ColorModel.colors]
    ELSE img

\* lines 172-174, 204, 234, 261, then 281 and 290-294
DecodeReturn ==
    /\ pc \in {"decodePalleted", "decode16", "decode24", "decode32"}
    /\ y = y1(topDown, height)
    /\ Return(Returned(imageAfterRows(bpp, image, pix, width, height, config),
                       ZeroConfig, pos, reads))

\* the color model of an image (image.Image.ColorModel)
ColorModelOf(img) ==
    CASE img.kind = "Paletted" -> [kind |-> "Palette", colors |-> img.Palette]
      [] img.kind = "RGBA" -> RGBAModel
      [] img.kind = "NRGBA" -> [kind |-> "NRGBAModel"]
      [] OTHER -> NilModel

(***************************************************************************)
(* The entry points, and the specification                                 *)
(***************************************************************************)
\* lines 298-301: d := &decoder{r: r}, on the file
DecodeConfig ==
    /\ pc = "idle"
    /\ outs["cfg"].status = "none"
    /\ run' = "cfg"
    /\ pc' = "readHeader"
    /\ UNCHANGED <<file, input, pos, reads, tmp, dibLen, topDown, bpp, numColor,
                   width, height, config, image, pix, y, outs>>

\* lines 285-288: d := &decoder{r: r}, on the file or on its twin
Decode ==
    \E k \in {"img", "flip"} :
        /\ pc = "idle"
        /\ outs[k].status = "none"
        /\ run' = k
        /\ pc' = "readHeader"
        /\ UNCHANGED <<file, input, pos, reads, tmp, dibLen, topDown, bpp, numColor,
                       width, height, config, image, pix, y, outs>>

InitOn(F) ==
    /\ file \in F
    /\ input = [base |-> InputBytes(file), flip |-> InputBytes(Flip(file))]
    /\ run = "none"
    /\ pc = "idle"
    /\ pos = 0
    /\ reads = <<>>
    /\ tmp = <<>>
    /\ dibLen = 0
    /\ topDown = FALSE
    /\ bpp = 0
    /\ numColor = 0
    /\ width = 0
    /\ height = 0
    /\ config = ZeroConfig
    /\ image = NilImage
    /\ pix = <<>>
    /\ y = 0
    /\ outs = [k \in Runs |-> NotCalled]

Next ==
    \/ DecodeConfig
    \/ Decode
    \/ readHeaderProbe
    \/ readHeader
    \/ decodeConfig
    \/ decode
    \/ decodePalleted
    \/ decode16
    \/ decode24
    \/ decode32
    \/ DecodeReturn

Init == InitOn(Files)

Spec == Init /\ [][Next]_vars

\* the same calls, also on the files that fill tmp to its end and past it
InitScratch == InitOn(Files \cup FamScratch)

SpecScratch == InitScratch /\ [][Next]_vars

(***************************************************************************)
(* What the claims speak of, read off the file the input was built from.   *)
(***************************************************************************)
\* the bytes call k reads, and the file they were built from
InputOf(k) == IF k = "flip" THEN input.flip ELSE input.base

FileOf(k) == IF k = "flip" THEN Flip(file) ELSE file

Done(k) == outs[k].status # "none"

MaskXor(f) == BitXor(BitXor(f.masks[1], f.masks[2]), f.masks[3])

\* the trivial-bitfield case as the specification words it
TrivialBitfieldCase(f) ==
    /\ f.compression = 3
    /\ f.dibLen > infoHeaderLen
    /\ \/ (f.bpp = 16 /\ MaskXor(f) = 32767)
       \/ (f.bpp = 32 /\ MaskXor(f) = 16777215)

GoodGeometry(f) ==
    f.sig = SigBM /\ f.dibLen \in DibLens /\ f.width > 0 /\ f.height # 0

ValidHeader(f) ==
    /\ GoodGeometry(f)
    /\ f.bpp \in Depths
    /\ (f.compression = 0 \/ TrivialBitfieldCase(f))
    /\ f.offset = fileHeaderLen + f.dibLen
                      + (IF f.bpp \in Indexed THEN 4 * f.numColor ELSE 0)

\* a valid header and complete data
ValidFile(f) == ValidHeader(f) /\ f.len < 0

\* a strict prefix of a valid file
TruncatedFile(f) == ValidHeader(f) /\ f.len >= 0 /\ f.len < Len(FileBytes(f))

\* the stored row that holds visual row v (0 is the top) of file f
StoredRow(f, v) == f.rows[IF f.height < 0 THEN v + 1 ELSE Abs(f.height) - v]

\* group j, counted from the most significant bit, of the b-bit groups of byte c
Group(c, b, j) == (c \div (2 ^ (8 - b * (j + 1)))) % (2 ^ b)

\* the four bytes of pixel x of row v of an RGBA buffer
PixelAt(px, w, v, x) == SubSeq(px, 4 * (v * w + x) + 1, 4 * (v * w + x) + 4)

(***************************************************************************)
(* C1: for every input with a valid header and complete data, DecodeConfig *)
(* succeeds, Decode succeeds, and the image Decode returns has the width,  *)
(* the height and the color model of the config DecodeConfig returns.      *)
(***************************************************************************)
C1_DecodeAgreesWithConfig ==
    ValidFile(file) =>
        /\ Done("cfg") => outs["cfg"].status = "ok"
        /\ Done("img") => outs["img"].status = "ok" /\ outs["img"].image.kind # "nil"
        /\ (Done("cfg") /\ Done("img")) =>
               /\ outs["img"].image.Width = outs["cfg"].config.Width
               /\ outs["img"].image.Height = outs["cfg"].config.Height
               /\ ColorModelOf(outs["img"].image) = outs["cfg"].config.ColorModel

(***************************************************************************)
(* C2: a file with height +h and its twin with height -h and the rows in   *)
(* reversed order decode to identical pixel buffers, row 0 the top row.    *)
(***************************************************************************)
\* row v of the buffer comes from the stored row that holds visual row v
TopRowFirst(img, f) ==
    \A v \in 0..(img.Height - 1) :
        GetRow(img.Pix, v, img.Stride)
            = applyWrites(Zeros(img.Stride), palletedWrites(StoredRow(f, v), f.width, f.bpp))

C2_HeightSignIdentical ==
    (ValidFile(file) /\ Done("img") /\ Done("flip")) =>
        /\ outs["img"].status = "ok" /\ outs["flip"].status = "ok"
        /\ outs["img"].image.kind # "nil"
        /\ outs["img"].image = outs["flip"].image
        /\ outs["img"].image.kind = "Paletted" =>
               TopRowFirst(outs["img"].image, file)

(***************************************************************************)
(* C3: every input, of any length, whose first two bytes are not "BM"      *)
(* makes Decode and DecodeConfig fail with the bad-signature error, and no *)
(* byte beyond the 18-byte probe is consumed.                              *)
(***************************************************************************)
BadSignatureInput(in) == Len(in) >= 2 /\ <<in[1], in[2]>> # SigBM

C3_BadSignatureAnyLength ==
    \A k \in Runs :
        (Done(k) /\ BadSignatureInput(InputOf(k))) =>
            /\ outs[k].status = "err"
            /\ outs[k].err = "BadSignature"
            /\ outs[k].consumed <= fileHeaderLen + 4

(***************************************************************************)
(* C3, amended: an input of at least 18 bytes whose first two bytes are    *)
(* not "BM" makes Decode and DecodeConfig fail with the bad-signature      *)
(* error after one read of exactly 18 bytes; a shorter one makes them fail *)
(* with the unexpected-end-of-data error.                                  *)
(***************************************************************************)
C3_BadSignatureAfterProbe ==
    \A k \in Runs :
        (Done(k) /\ BadSignatureInput(InputOf(k))) =>
            /\ outs[k].status = "err"
            /\ outs[k].image = NilImage /\ outs[k].config = ZeroConfig
            /\ IF Len(InputOf(k)) >= fileHeaderLen + 4
               THEN /\ outs[k].err = "BadSignature"
                    /\ outs[k].consumed = fileHeaderLen + 4
                    /\ outs[k].reads = <<<<0, fileHeaderLen + 4, fileHeaderLen + 4>>>>
               ELSE outs[k].err = "ErrUnexpectedEOF"

C3_Witness ==
    /\ BadSignatureInput(input.base)
    /\ Len(input.base) > fileHeaderLen + 4
    /\ outs["cfg"].err = "BadSignature"
    /\ outs["img"].err = "BadSignature"

(***************************************************************************)
(* C4: on every strict prefix of a valid file Decode fails with the        *)
(* unexpected-end-of-data error and returns no image.                      *)
(***************************************************************************)
C4_TruncatedIsUnexpectedEOF ==
    \A k \in {"img", "flip"} :
        (TruncatedFile(file) /\ Done(k)) =>
            /\ outs[k].status = "err"
            /\ outs[k].err = "ErrUnexpectedEOF"
            /\ outs[k].image = NilImage

(***************************************************************************)
(* C5: a nonzero compression code is accepted only in the trivial-bitfield *)
(* case; every other nonzero code fails with the unsupported-compression   *)
(* error, for every bit depth.                                             *)
(***************************************************************************)
C5_NonzeroCompressionRejected ==
    \A k \in Runs :
        (/\ Done(k)
         /\ GoodGeometry(file)
         /\ Len(InputOf(k)) >= fileHeaderLen + file.dibLen
         /\ file.compression # 0
         /\ ~TrivialBitfieldCase(file)) =>
            (outs[k].status = "err" /\ outs[k].err = "UnsupportedCompression")

(***************************************************************************)
(* C6: for indexed inputs, pixel x of each decoded row is the bpp-bit      *)
(* group number x mod k, counted from the most significant bit, of row     *)
(* byte x div k, with k = 8/bpp.                                           *)
(***************************************************************************)
C6_IndexedUnpackMSBFirst ==
    (ValidFile(file) /\ file.bpp \in Indexed /\ Done("img")) =>
        /\ outs["img"].status = "ok"
        /\ outs["img"].image.kind = "Paletted"
        /\ \A v \in 0..(Abs(file.height) - 1) : \A x \in 0..(file.width - 1) :
               LET k == 8 \div file.bpp
               IN  outs["img"].image.Pix[v * file.width + x + 1]
                       = Group(StoredRow(file, v)[(x \div k) + 1], file.bpp, x % k)

(***************************************************************************)
(* C7: for every valid 24-bit input the image Decode returns has, for      *)
(* every pixel, R, G, B = source bytes 2, 1, 0 of the pixel and A = 0xff.  *)
(***************************************************************************)
C7_Decode24ByteForByte ==
    (ValidFile(file) /\ file.bpp = 24 /\ Done("img")) =>
        /\ outs["img"].status = "ok"
        /\ outs["img"].image.kind # "nil"
        /\ \A v \in 0..(Abs(file.height) - 1) : \A x \in 0..(file.width - 1) :
               PixelAt(outs["img"].image.Pix, file.width, v, x)
                   = <<StoredRow(file, v)[3 * x + 3], StoredRow(file, v)[3 * x + 2],
                       StoredRow(file, v)[3 * x + 1], 255>>

(***************************************************************************)
(* C8: in a valid 16-bit input a pixel whose word has only the five blue   *)
(* bits set decodes to R = 0, G = 0, B = 0xf8, A = 0xff.  The blue bits    *)
(* are taken to be the five bits decode16 reads the blue byte from (the    *)
(* top five bits of the low byte); the formula speaks of the buffer        *)
(* decode16 has filled when its row loop ends.                             *)
(***************************************************************************)
PureBlue == <<248, 0>>

C8_Decode16BlueScaled ==
    (ValidFile(FileOf(run)) /\ pc = "decode16" /\ y = y1(topDown, height)) =>
        \A v \in 0..(height - 1) : \A x \in 0..(width - 1) :
            SubSeq(StoredRow(FileOf(run), v), 2 * x + 1, 2 * x + 2) = PureBlue
                => PixelAt(pix, width, v, x) = <<0, 0, 248, 255>>

(***************************************************************************)
(* C9: in every successful Decode the reads go strictly forward: 18 bytes, *)
(* dibLen-4 bytes, for indexed depths numColor*4 bytes, then height reads  *)
(* of the padded row length ceil(width*bpp/32)*4 each, so that the bytes   *)
(* consumed are the pixel-data offset plus height times that length.       *)
(***************************************************************************)
ExpectedReads(f) ==
    LET L == StoredRowLen(f.width, f.bpp)
    IN  <<<<0, 18, 18>>, <<18, f.dibLen - 4, f.dibLen - 4>>>>
            \o (IF f.bpp \in Indexed
                THEN <<<<fileHeaderLen + f.dibLen, f.numColor * 4, f.numColor * 4>>>>
                ELSE <<>>)
            \o [r \in 1..Abs(f.height) |-> <<f.offset + (r - 1) * L, L, L>>]

C9_ReadsForwardPadded ==
    \A k \in {"img", "flip"} :
        outs[k].status = "ok" =>
            /\ outs[k].reads = ExpectedReads(FileOf(k))
            /\ outs[k].consumed
                   = FileOf(k).offset
                         + Abs(FileOf(k).height) * StoredRowLen(FileOf(k).width, FileOf(k).bpp)

C9_Witness ==
    /\ outs["img"].status = "ok"
    /\ file.bpp = 4 /\ file.width = 2 /\ file.height = 2
    /\ Len(outs["img"].reads) = 5
    /\ outs["flip"].status = "ok"

(***************************************************************************)
(* C10: for every header readHeader accepts, no step of DecodeConfig or    *)
(* Decode slices or indexes tmp or a destination row outside its length:   *)
(* no call ends in a run-time panic.                                       *)
(***************************************************************************)
C10_NoPanic == \A k \in Runs : outs[k].status # "panic"

(***************************************************************************)
(* What the row loops do get right.                                        *)
(***************************************************************************)
\* where Decode returns a paletted image for a file and for its twin, the
\* two images are identical, row 0 the top row
Aux_HeightSignPalleted ==
    (ValidFile(file) /\ outs["img"].status = "ok" /\ outs["flip"].status = "ok"
        /\ outs["img"].image.kind = "Paletted") =>
        /\ outs["img"].image = outs["flip"].image
        /\ TopRowFirst(outs["img"].image, file)

\* the buffer decode24 has filled when its row loop ends holds the source
\* bytes reordered; Decode does not return it
Aux_Decode24Buffer ==
    (ValidFile(FileOf(run)) /\ pc = "decode24" /\ y = y1(topDown, height)) =>
        \A v \in 0..(height - 1) : \A x \in 0..(width - 1) :
            PixelAt(pix, width, v, x)
                = <<StoredRow(FileOf(run), v)[3 * x + 3], StoredRow(FileOf(run), v)[3 * x + 2],
                    StoredRow(FileOf(run), v)[3 * x + 1], 255>>

====
